---- MODULE Spec2Model ----
(***************************************************************************)
(* Model of the time-gated terminal animations (Spinner, Dotter) and the   *)
(* lap Timer of futils.h.                                                  *)
(*                                                                         *)
(* Time.  CLOCK_MONOTONIC is the variable clock, counted in ticks of       *)
(* 1/TicksPerSec second.  A struct timespec is the record                  *)
(* [tv_sec, tv_nsec] with tv_nsec counted in ticks, so that the source's   *)
(*   (now.tv_sec - last.tv_sec) + (now.tv_nsec - last.tv_nsec) / 1E9       *)
(* is, in ticks, (sec difference) * TicksPerSec + (nsec difference).       *)
(* A double holding seconds is the integer number of ticks, and the        *)
(* double period is the exact rational [num, den] (den = 0: +infinity);    *)
(* floating-point rounding is not modelled.                                *)
(*                                                                         *)
(* unsigned long is 64 bits wide (LP64): a little-endian sequence of       *)
(* WordLimbs limbs in base Limb, arithmetic modulo Limb^WordLimbs.         *)
(***************************************************************************)
EXTENDS Integers, Sequences, FiniteSets, TLC

VARIABLES
    clock,      \* CLOCK_MONOTONIC, in ticks
    anim,       \* the Spinner or Dotter object: its fields
    stdout,     \* every byte written to standard output by putchar, in order
    flushed,    \* how many bytes of stdout the last fflush(stdout) had covered
    ev,         \* history: what the last operation on anim did
    fires,      \* history: number of frames fired since construction (unbounded)
    n,          \* history: number of frames fired in this behaviour
    timer,      \* the Timer object: its fields
    tev         \* history: what the last operation on timer did

vars == <<clock, anim, stdout, flushed, ev, fires, n, timer, tev>>

animVars == <<anim, stdout, flushed, ev, fires, n>>
timerVars == <<timer, tev>>

----------------------------------------------------------------------------
(* Bounds of the model *)

MaxTime == 12        \* the clock runs from ClockStart to ClockStart + MaxTime
MaxFires == 7        \* frames fired in one behaviour
MaxTimerTime == 4    \* the same, in the behaviours of the Timer
MaxLaps == 2         \* entries of laps in one behaviour
ClockStart == 997    \* clock value at construction (3 ticks before a second ends)

(* Units *)

TicksPerSec == 1000  \* clock resolution of the model: 1 tick = 1 ms
TolTicks == 1        \* the gate's tolerance 1E-3 s, in ticks
Mega == 1000000      \* 1 / 1E-6, the denominator of Spinner's epsilon

Limb == 65536        \* base of one limb of an unsigned long
WordLimbs == 4       \* limbs of an unsigned long: 4 * 16 = 64 bits

----------------------------------------------------------------------------
(* unsigned long arithmetic *)

RECURSIVE Ripple(_, _)
\* w + c, limb by limb, the carry out of the last limb dropped
Ripple(w, c) ==
    IF w = <<>> THEN <<>>
    ELSE <<(Head(w) + c) % Limb>> \o Ripple(Tail(w), (Head(w) + c) \div Limb)

RECURSIVE RippleMul(_, _, _)
\* w * m + c, limb by limb, the carry out of the last limb dropped
RippleMul(w, m, c) ==
    IF w = <<>> THEN <<>>
    ELSE <<(Head(w) * m + c) % Limb>>
         \o RippleMul(Tail(w), m, (Head(w) * m + c) \div Limb)

RECURSIVE ModFrom(_, _, _)
\* (w[i] + w[i+1]*Limb + w[i+2]*Limb^2 + ...) mod m
ModFrom(w, i, m) ==
    IF i > Len(w) THEN 0
    ELSE (w[i] + (Limb % m) * ModFrom(w, i + 1, m)) % m

\* unsigned long + small constant (spinIndex++, spinIndex += 4)
WordAdd(w, k) == Ripple(w, k)

\* unsigned long % m (spinIndex % spin_chars.length())
WordMod(w, m) == ModFrom(w, 1, m)

\* the low WordLimbs limbs of a longer number: conversion to unsigned long
Truncate(w) == SubSeq(w, 1, WordLimbs)

----------------------------------------------------------------------------
(* Bytes and strings.  A std::string is the sequence of its characters;    *)
(* C++ index i is TLA+ index i + 1.                                        *)

NUL == "\\0"
Bytes == {" ", ".", "/", "-", "\\", "|", "\r", NUL, "?"}

\* "/-\\|"
SpinnerChars == <<"/", "-", "\\", "|">>

\* a pattern one character longer
DotterChars25 ==
    <<".", ".", ".", " ", ".", ".", " ", ".", ".", " ", ".", ".", " ",
      ".", ".", ".", ".", " ", ".", ".", ".", ".", " ", ".", ".">>

\* "... .. .. .. .... .... ."
DotterChars ==
    <<".", ".", ".", " ", ".", ".", " ", ".", ".", " ", ".", ".", " ",
      ".", ".", ".", ".", " ", ".", ".", ".", ".", " ", ".">>

\* What s[i] can evaluate to: the character inside the string, the
\* terminating null at i = length, any byte at all beyond it (undefined).
CharAt(s, i) ==
    IF i < Len(s) THEN {s[i + 1]}
    ELSE IF i = Len(s) THEN {NUL}
    ELSE Bytes

----------------------------------------------------------------------------
(* Clock and rate gate *)

ClockGettime ==
    [tv_sec |-> clock \div TicksPerSec, tv_nsec |-> clock % TicksPerSec]

\* (now.tv_sec - last.tv_sec) + (now.tv_nsec - last.tv_nsec) / 1E9, in ticks
TimeElapsed(now, last) ==
    (now.tv_sec - last.tv_sec) * TicksPerSec + (now.tv_nsec - last.tv_nsec)

\* SpinnerPeriod without the epsilon: 1 / static_cast<double>(freq)
SpinnerPeriodNoEps(freq) ==
    IF freq > 0 THEN [num |-> 1, den |-> freq]
    ELSE IF freq < 0 THEN [num |-> -1, den |-> -freq]
    ELSE [num |-> 1, den |-> 0]

\* 1 / static_cast<double>(freq + 1E-6) = Mega / (Mega * freq + 1)
SpinnerPeriod(freq) ==
    LET d == Mega * freq + 1
    IN  IF d > 0 THEN [num |-> Mega, den |-> d] ELSE [num |-> -Mega, den |-> -d]

\* 1 / static_cast<double>(freq); 1 / 0.0 is +infinity
DotterPeriod(freq) ==
    IF freq > 0 THEN [num |-> 1, den |-> freq]
    ELSE IF freq < 0 THEN [num |-> -1, den |-> -freq]
    ELSE [num |-> 1, den |-> 0]

\* RateGate with the tolerance on the wrong side: timeElapsed - period > 1E-3
RateGateLate(period, e) ==
    /\ period.den # 0
    /\ e - TolTicks > (TicksPerSec * period.num) \div period.den

\* RateGate with <= for <
RateGateLE(period, e) ==
    /\ period.den # 0
    /\ e + TolTicks >= -((-(TicksPerSec * period.num)) \div period.den)

\* period - timeElapsed < 1E-3.  With e = timeElapsed in ticks this is
\*   num/den < (e + TolTicks)/TicksPerSec
\*   <=>  TicksPerSec * num < den * (e + TolTicks)
\*   <=>  e + TolTicks > floor(TicksPerSec * num / den)      (den > 0)
\* and +infinity - e < 1E-3 is false.
RateGate(period, e) ==
    /\ period.den # 0
    /\ e + TolTicks > (TicksPerSec * period.num) \div period.den

----------------------------------------------------------------------------
(* Spinner and Dotter *)

\* the frequencies the objects are constructed with
Freqs == {-1, 0, 250, 500, 1000, 1001}

\* "Dotter2017" is the Dotter of the 2017 revision of the header, whose
\* leading putchar(' ') is commented out; the other revisions are "Dotter".
Kinds == {"Spinner", "Dotter", "Dotter2017"}

IsDotter(kind) == kind \in {"Dotter", "Dotter2017"}

\* Spinner advancing like Dotter
StrideAlways4(kind) == 4

\* Dotter advancing like Spinner
StrideAlways1(kind) == 1

\* spinIndex++ in Spinner, spinIndex += 4 in Dotter
Stride(kind) == IF kind = "Spinner" THEN 1 ELSE 4

PeriodOf(kind, freq) ==
    IF kind = "Spinner" THEN SpinnerPeriod(freq) ELSE DotterPeriod(freq)

CharsOf(kind) == IF kind = "Spinner" THEN SpinnerChars ELSE DotterChars

\* now is not initialised by the constructors; no code reads it before operator()
\* has stored a clock sample in it
NoSample == [tv_sec |-> -1, tv_nsec |-> -1]

\* numbers of fired frames the objects start a behaviour with: none (a fresh
\* object), or two fires before spinIndex wraps around (2^64 - 2 for Spinner,
\* (2^64 - 8) / 4 for Dotter).  One limb more than an unsigned long.
FiresAtStart(kind) ==
    {<<0, 0, 0, 0, 0>>,
     IF kind = "Spinner" THEN <<65534, 65535, 65535, 65535, 0>>
                         ELSE <<65534, 65535, 65535, 16383, 0>>}

\* The object after construction and k fired frames, the last fire (or the
\* construction) at the current clock sample.
AnimAfter(kind, freq, k) ==
    [kind       |-> kind,
     freq       |-> freq,
     period     |-> PeriodOf(kind, freq),
     last       |-> ClockGettime,
     now        |-> IF k = <<0, 0, 0, 0, 0>> THEN NoSample ELSE ClockGettime,
     spinIndex  |-> Truncate(RippleMul(k, Stride(kind), 0)),
     spin_chars |-> CharsOf(kind)]

\* History of the last operation on anim: op, whether the gate fired, the
\* clock at the operation (at), the clock at the fire before it or else at
\* construction (since), the clock at the poll before it or else at
\* construction (prevAt), and anim, stdout, flushed as they were before it.
NoEvent == [op |-> "none", fired |-> FALSE, at |-> 0, since |-> 0, prevAt |-> 0,
            pre |-> <<>>, preOut |-> <<>>, preFlushed |-> 0]

NoTimer == [constructed |-> FALSE]
NoAnim == [constructed |-> FALSE]

Init ==
    /\ clock = ClockStart
    /\ \E kind \in Kinds, freq \in Freqs :
         \E k \in FiresAtStart(kind) :
            /\ (k # <<0, 0, 0, 0, 0>> => freq # 0)
            /\ anim = AnimAfter(kind, freq, k)
            /\ fires = k
    /\ stdout = <<>>
    /\ flushed = 0
    /\ ev = [NoEvent EXCEPT !.at = clock, !.since = clock, !.prevAt = clock]
    /\ n = 0
    /\ timer = NoTimer
    /\ tev = NoEvent

\* SpinnerFrame without the trailing putchar(' ')
SpinnerFrameShort(a) ==
    LET base == WordMod(a.spinIndex, Len(a.spin_chars))
    IN  {<<" ", c>> : c \in CharAt(a.spin_chars, base)}

\* putchar(' '); putchar(spin_chars[spinIndex % spin_chars.length()]); putchar(' ');
SpinnerFrame(a) ==
    LET base == WordMod(a.spinIndex, Len(a.spin_chars))
    IN  {<<" ", c, " ">> : c \in CharAt(a.spin_chars, base)}

\* DotterRead with the last offset a copy of the third
DotterReadDup(a) ==
    LET base == WordMod(a.spinIndex, Len(a.spin_chars))
    IN  {<<c0, c1, c2, c3>> :
            c0 \in CharAt(a.spin_chars, base),
            c1 \in CharAt(a.spin_chars, base + 1),
            c2 \in CharAt(a.spin_chars, base + 2),
            c3 \in CharAt(a.spin_chars, base + 2)}

\* the four pattern characters at base, base + 1, base + 2, base + 3
DotterRead(a) ==
    LET base == WordMod(a.spinIndex, Len(a.spin_chars))
    IN  {<<c0, c1, c2, c3>> :
            c0 \in CharAt(a.spin_chars, base),
            c1 \in CharAt(a.spin_chars, base + 1),
            c2 \in CharAt(a.spin_chars, base + 2),
            c3 \in CharAt(a.spin_chars, base + 3)}

\* putchar(' '); the four characters; putchar(' ');
DotterFrame(a) == {<<" ">> \o d \o <<" ">> : d \in DotterRead(a)}

\* 2017 revision: //putchar(' '); the four characters; putchar(' ');
Dotter2017Frame(a) == {d \o <<" ">> : d \in DotterRead(a)}

FrameOf(a) ==
    IF a.kind = "Spinner" THEN SpinnerFrame(a)
    ELSE IF a.kind = "Dotter" THEN DotterFrame(a)
    ELSE Dotter2017Frame(a)

\* Advance without "last = now"
AdvanceKeepLast(a) ==
    [a EXCEPT !.spinIndex = WordAdd(a.spinIndex, Stride(a.kind))]

\* spinIndex++ / spinIndex += 4; last = now;   (a.now already holds the sample)
Advance(a) ==
    [a EXCEPT !.spinIndex = WordAdd(a.spinIndex, Stride(a.kind)),
              !.last = a.now]

\* Idle with "last = now" moved out of the if
IdleTouchLast(a) == [a EXCEPT !.last = a.now]

\* operator() when the gate does not fire: only the sample in now is new
Idle(a) == a

\* void operator()(void) of the object of the given kind
Operate(kind) ==
    /\ anim.kind = kind
    /\ LET sampled == [anim EXCEPT !.now = ClockGettime]
           timeElapsed == TimeElapsed(sampled.now, sampled.last)
           fire == RateGate(sampled.period, timeElapsed)
       IN  /\ IF fire
              THEN \E frame \in FrameOf(sampled) :
                     /\ stdout' = stdout \o frame \o <<"\r">>
                     \* fflush(stdout) comes before putchar('\r')
                     /\ flushed' = Len(stdout) + Len(frame)
                     /\ anim' = Advance(sampled)
                     /\ fires' = Ripple(fires, 1)
                     /\ n' = n + 1
              ELSE /\ anim' = Idle(sampled)
                   /\ UNCHANGED <<stdout, flushed, fires, n>>
           /\ ev' = [op |-> "poll", fired |-> fire, at |-> clock,
                     since |-> IF ev.fired THEN ev.at ELSE ev.since,
                     prevAt |-> ev.at,
                     pre |-> anim, preOut |-> stdout, preFlushed |-> flushed]
    /\ UNCHANGED <<clock, timerVars>>

\* a poll by a caller that polls at any time, until MaxFires frames were fired
Poll(kind) == n < MaxFires /\ Operate(kind)

SpinnerPoll == Poll("Spinner")

DotterPoll == Poll("Dotter")

Dotter2017Poll == Poll("Dotter2017")

Horizon == IF anim = NoAnim THEN MaxTimerTime ELSE MaxTime

\* the monotonic clock advances
Tick ==
    /\ clock < ClockStart + Horizon
    /\ clock' = clock + 1
    /\ UNCHANGED <<animVars, timerVars>>

Next == Tick \/ SpinnerPoll \/ DotterPoll \/ Dotter2017Poll

Spec == Init /\ [][Next]_vars

\* The caller's loop keeps polling: a poll that would change the state is
\* eventually made.
LiveSpec ==
    Spec /\ WF_vars(SpinnerPoll \/ DotterPoll \/ Dotter2017Poll)

----------------------------------------------------------------------------
(* The scenario of a 10 Hz Spinner constructed at clock 0 and polled every  *)
(* 5 ms up to 1 s: at clock 5, 10, ..., 1000.                               *)

ScenarioInit ==
    /\ clock = 0
    /\ anim = AnimAfter("Spinner", 10, <<0, 0, 0, 0, 0>>)
    /\ fires = <<0, 0, 0, 0, 0>>
    /\ stdout = <<>>
    /\ flushed = 0
    /\ ev = NoEvent
    /\ n = 0
    /\ timer = NoTimer
    /\ tev = NoEvent

\* a poll is due at the current clock value and has not been made yet
PollDue == clock > 0 /\ clock % 5 = 0 /\ ~(ev.op = "poll" /\ ev.at = clock)

ScenarioPoll == PollDue /\ Operate("Spinner")

ScenarioTick ==
    /\ ~PollDue
    /\ clock < 1000
    /\ clock' = clock + 1
    /\ UNCHANGED <<animVars, timerVars>>

ScenarioNext == ScenarioTick \/ ScenarioPoll

ScenarioSpec == ScenarioInit /\ [][ScenarioNext]_vars

----------------------------------------------------------------------------
(* Timer *)

\* start, lap and now are not initialised by Timer(): lap, which Lap() and
\* GetCurrentLapTime() read, holds whatever the memory held
Garbage == {[tv_sec |-> 0, tv_nsec |-> 0], [tv_sec |-> 1, tv_nsec |-> 5]}

\* History of the last operation on timer: op, its return value in ticks
\* (ret), the clock at the operation (at), timer as it was before it (pre);
\* and of the operations so far, each with its value before the last
\* operation too: whether a Start() was called and no Stop() since (live),
\* the clock at the most recent Start() (startedAt, -1: none), the clock at
\* the most recent Start() or Lap() (refAt, -1: none), the value returned by
\* the most recent Elapsed() of a running timer since the most recent
\* Start() (lastElapsed, -1: none), the number of Start() calls, counted to
\* 2, the length of laps at the most recent Start() (lapsAtStart).
NoTimerEvent == [op |-> "none", ret |-> 0, at |-> 0, pre |-> <<>>,
                 live |-> FALSE, preLive |-> FALSE,
                 startedAt |-> -1,
                 refAt |-> -1, preRefAt |-> -1,
                 lastElapsed |-> -1, preLastElapsed |-> -1,
                 starts |-> 0, lapsAtStart |-> 0]

\* Timer() : running(false), elapsedTime(0), lapTime(0)
TimerInit ==
    /\ clock = ClockStart
    /\ \E g \in Garbage :
         timer = [laps |-> <<>>, running |-> FALSE, start |-> NoSample,
                  lap |-> g, now |-> NoSample, elapsedTime |-> 0, lapTime |-> 0]
    /\ tev = NoTimerEvent
    /\ anim = NoAnim
    /\ stdout = <<>>
    /\ flushed = 0
    /\ ev = NoEvent
    /\ fires = <<0, 0, 0, 0, 0>>
    /\ n = 0

TimerDone(op, ret) ==
    tev' = [op |-> op, ret |-> ret, at |-> clock, pre |-> timer,
            live |-> IF op = "Start" THEN TRUE
                     ELSE IF op = "Stop" THEN FALSE ELSE tev.live,
            preLive |-> tev.live,
            startedAt |-> IF op = "Start" THEN clock ELSE tev.startedAt,
            refAt |-> IF op \in {"Start", "Lap"} THEN clock ELSE tev.refAt,
            preRefAt |-> tev.refAt,
            lastElapsed |-> IF op = "Start" THEN -1
                            ELSE IF op = "Elapsed" /\ tev.live THEN ret
                            ELSE tev.lastElapsed,
            preLastElapsed |-> tev.lastElapsed,
            starts |-> IF op = "Start" /\ tev.starts < 2 THEN tev.starts + 1
                       ELSE tev.starts,
            lapsAtStart |-> IF op = "Start" THEN Len(timer.laps)
                            ELSE tev.lapsAtStart]

\* StartTimer that leaves a running timer alone
StartOnce(t) ==
    IF t.running THEN t
    ELSE [t EXCEPT !.start = ClockGettime, !.lap = ClockGettime, !.running = TRUE]

\* StartTimer without "lap = start"
StartKeepLap(t) == [t EXCEPT !.start = ClockGettime, !.running = TRUE]

\* StartTimer that also clears the lap history
StartClearLaps(t) ==
    [t EXCEPT !.start = ClockGettime, !.lap = ClockGettime, !.running = TRUE,
              !.laps = <<>>]

\* clock_gettime(CLOCK_MONOTONIC, &start); lap = start; running = true;
StartTimer(t) ==
    [t EXCEPT !.start = ClockGettime, !.lap = ClockGettime, !.running = TRUE]

Start ==
    /\ timer' = StartTimer(timer)
    /\ TimerDone("Start", 0)
    /\ UNCHANGED <<clock, animVars>>

\* StopTimer without "running = false"
StopKeepRunning(t) == [t EXCEPT !.lapTime = 0]

\* lapTime = 0; running = false;
StopTimer(t) == [t EXCEPT !.lapTime = 0, !.running = FALSE]

Stop ==
    /\ timer' = StopTimer(timer)
    /\ TimerDone("Stop", 0)
    /\ UNCHANGED <<clock, animVars>>

\* the timer after Elapsed(); its elapsedTime field is what a running timer returns
ElapsedTimer(t) ==
    IF t.running
    THEN [t EXCEPT !.now = ClockGettime,
                   !.elapsedTime = TimeElapsed(ClockGettime, t.start)]
    ELSE t

\* the value Elapsed() returns
ElapsedValue(t) == IF t.running THEN ElapsedTimer(t).elapsedTime ELSE 0

Elapsed ==
    /\ timer' = ElapsedTimer(timer)
    /\ TimerDone("Elapsed", ElapsedValue(timer))
    /\ UNCHANGED <<clock, animVars>>

\* LapTimer without "lap = now"
LapKeepRef(t) ==
    LET lapTime == TimeElapsed(ClockGettime, t.lap)
    IN  [t EXCEPT !.now = ClockGettime, !.lapTime = lapTime,
                  !.laps = Append(@, lapTime)]

\* lapTime = now - lap; laps.push_back(lapTime); lap = now; return lapTime;
LapTimer(t) ==
    LET lapTime == TimeElapsed(ClockGettime, t.lap)
    IN  [t EXCEPT !.now = ClockGettime, !.lapTime = lapTime,
                  !.laps = Append(@, lapTime), !.lap = ClockGettime]

Lap ==
    /\ Len(timer.laps) < MaxLaps
    /\ timer' = LapTimer(timer)
    /\ TimerDone("Lap", timer'.lapTime)
    /\ UNCHANGED <<clock, animVars>>

\* PeekTimer that also executes "lap = now"
PeekMovesRef(t) ==
    [t EXCEPT !.now = ClockGettime, !.lapTime = TimeElapsed(ClockGettime, t.lap),
              !.lap = ClockGettime]

\* lapTime = now - lap; return lapTime;
PeekTimer(t) ==
    [t EXCEPT !.now = ClockGettime, !.lapTime = TimeElapsed(ClockGettime, t.lap)]

GetCurrentLapTime ==
    /\ timer' = PeekTimer(timer)
    /\ TimerDone("GetCurrentLapTime", timer'.lapTime)
    /\ UNCHANGED <<clock, animVars>>

TimerNext == Tick \/ Start \/ Stop \/ Elapsed \/ Lap \/ GetCurrentLapTime

TimerSpec == TimerInit /\ [][TimerNext]_vars

----------------------------------------------------------------------------
(* Properties of Spinner and Dotter (checked under Spec) *)

\* the clock value a timespec stands for, and the timespec of a clock value
ClockValue(ts) == ts.tv_sec * TicksPerSec + ts.tv_nsec
SampleAt(c) == [tv_sec |-> c \div TicksPerSec, tv_nsec |-> c % TicksPerSec]

\* gap/TicksPerSec >= period - 1E-3, for a finite period and gap in ticks:
\* gap + TolTicks >= ceiling(TicksPerSec * num / den)
AtLeastPeriodLessTolerance(period, gap) ==
    gap + TolTicks >= -((-(TicksPerSec * period.num)) \div period.den)

\* period - gap/TicksPerSec < 1E-3, i.e. not
\* gap + TolTicks <= floor(TicksPerSec * num / den); never for an infinite period
WithinTolerance(period, gap) ==
    /\ period.den # 0
    /\ ~(gap + TolTicks <= (TicksPerSec * period.num) \div period.den)

Polled == ev.op = "poll"

\* the last operation was a poll that wrote to standard output
Wrote == Polled /\ stdout # ev.preOut

\* the bytes the last poll wrote
Written == SubSeq(stdout, Len(ev.preOut) + 1, Len(stdout))

\* C1: with frequency > 0, whenever a frame is fired, the time since the
\* previous fired frame (since construction, for the first frame) is at least
\* period - tolerance, however many polls were made in between.
C1_RateLimit ==
    (Wrote /\ anim.freq > 0) =>
        AtLeastPeriodLessTolerance(anim.period, ev.at - ev.since)

\* a second frame of a 250 Hz Dotter, fired after polls that did not fire
C1_Witness ==
    /\ Wrote /\ anim.kind = "Dotter" /\ anim.freq = 250
    /\ n = 2
    /\ ev.at - ev.since = 4

\* C2: a poll fires exactly when period - (now - lastTrigger) < tolerance,
\* and a poll that fires leaves lastTrigger equal to the clock sample it took.
C2_GateIff ==
    Polled =>
        /\ Wrote <=> WithinTolerance(ev.pre.period, ev.at - ClockValue(ev.pre.last))
        /\ Wrote => (anim.last = SampleAt(ev.at) /\ anim.now = SampleAt(ev.at))

\* a poll one tick short of the gate did not fire, at 500 Hz
C2_Witness ==
    /\ Polled /\ ~Wrote /\ anim.freq = 500 /\ anim.kind = "Dotter"
    /\ ev.at - ClockValue(ev.pre.last) = 1

\* C3: a poll on which the gate does not fire writes nothing and changes no
\* field but the scratch sample now.
C3_IdlePoll ==
    (Polled /\ ~ev.fired) =>
        /\ stdout = ev.preOut
        /\ flushed = ev.preFlushed
        /\ anim = [ev.pre EXCEPT !.now = SampleAt(ev.at)]

\* a poll after a fired frame that did not fire and only stored a new sample
C3_Witness ==
    /\ Polled /\ ~ev.fired /\ n >= 1
    /\ anim.now # ev.pre.now
    /\ anim.last = ev.pre.last

\* the last operation was a poll on which the gate fired
Fired == Polled /\ ev.fired

\* the number of frames fired before the last one, modulo m
FrameNumberMod(m) == (ModFrom(fires, 1, m) + m - 1) % m

\* C4: the k-th fired frame of a Spinner (k from 0) shows "/-\|"[k mod 4],
\* and frameIndex is the number of fired frames (modulo 2^64), so it grows
\* by 1 per fire; also past the wrap-around of the counter.
C4_SpinnerCycle ==
    anim.kind = "Spinner" =>
        /\ anim.spinIndex = SubSeq(fires, 1, WordLimbs)
        /\ Fired => Written[2] = <<"/", "-", "\\", "|">>[FrameNumberMod(4) + 1]

\* the frame number 2^64 of a Spinner, shown as "/" after frame 2^64 - 1 as "|"
C4_Witness ==
    /\ anim.kind = "Spinner" /\ Fired
    /\ fires = <<1, 0, 0, 0, 1>>
    /\ Written[2] = "/"
    /\ ev.preOut[Len(ev.preOut) - 2] = "|"

\* C5: a fire of a Spinner writes exactly four bytes: space, the current
\* glyph, space, carriage return.
C5_SpinnerBytes ==
    (anim.kind = "Spinner" /\ Fired) =>
        /\ Len(stdout) = Len(ev.preOut) + 4
        /\ SubSeq(stdout, 1, Len(ev.preOut)) = ev.preOut
        /\ Written = <<" ", SpinnerChars[WordMod(ev.pre.spinIndex, 4) + 1], " ", "\r">>

\* a fire of a Spinner that wrote the glyph "\"
C5_Witness ==
    /\ anim.kind = "Spinner" /\ Fired
    /\ Written = <<" ", "\\", " ", "\r">>

\* the four pattern characters at the base offset of the last fired frame
DotsOf(a) ==
    LET base == WordMod(a.spinIndex, 24)
    IN  <<DotterChars[base + 1], DotterChars[base + 2],
          DotterChars[base + 3], DotterChars[base + 4]>>

\* frameIndex is four times the number of fired frames (modulo 2^64)
DotterIndexByFour == anim.spinIndex = SubSeq(RippleMul(fires, 4, 0), 1, WordLimbs)

\* C6 as stated: every Dotter definition writes " dddd \r" on a fire, dddd
\* the pattern characters at frameIndex mod length and the next three
\* offsets, and frameIndex grows by 4 per fire.
C6_Original ==
    IsDotter(anim.kind) =>
        /\ DotterIndexByFour
        /\ Fired => Written = <<" ">> \o DotsOf(ev.pre) \o <<" ", "\r">>

\* C6 as amended: the Dotter of the 2017 revision writes "dddd \r", without
\* the leading space; the other Dotter definitions write " dddd \r"; in
\* both, dddd are the pattern characters at frameIndex mod length and the
\* next three offsets, and frameIndex grows by 4 per fire.
C6_DotterBytes ==
    IsDotter(anim.kind) =>
        /\ DotterIndexByFour
        /\ (Fired /\ anim.kind = "Dotter") =>
              Written = <<" ">> \o DotsOf(ev.pre) \o <<" ", "\r">>
        /\ (Fired /\ anim.kind = "Dotter2017") =>
              Written = DotsOf(ev.pre) \o <<" ", "\r">>

\* a fire of the 2017 Dotter at base offset 8, which wrote ". .. \r"
C6_Witness ==
    /\ anim.kind = "Dotter2017" /\ Fired
    /\ ev.pre.spinIndex = <<8, 0, 0, 0>>
    /\ Written = <<".", " ", ".", ".", " ", "\r">>

\* C7: in every state of a Dotter the four offsets a fire would read, base
\* to base + 3 with base = frameIndex mod patternLength, are inside the
\* pattern; also past the wrap-around of frameIndex.
C7_DotterInBounds ==
    IsDotter(anim.kind) =>
        LET base == WordMod(anim.spinIndex, Len(anim.spin_chars))
        IN  \A k \in 0..3 : base + k <= Len(anim.spin_chars) - 1

\* a Dotter that has fired the frame after frameIndex wrapped to 0
C7_Witness ==
    /\ IsDotter(anim.kind) /\ Fired
    /\ ev.pre.spinIndex = <<0, 0, 0, 0>> /\ fires[4] = 16384
    /\ anim.spinIndex = <<4, 0, 0, 0>>

----------------------------------------------------------------------------
(* Properties of Timer (checked under TimerSpec) *)

\* C8: Elapsed() returns exactly 0 whenever the timer is not running: before
\* any Start(), and after Stop() until the next Start(), whatever time has
\* passed and whatever Lap() and GetCurrentLapTime() calls came in between.
C8_ElapsedStopped ==
    (tev.op = "Elapsed" /\ ~tev.live) => tev.ret = 0

\* Elapsed() on a timer stopped after a Start(), time having passed since the
\* Start() and a lap having been taken
C8_Witness ==
    /\ tev.op = "Elapsed" /\ ~tev.live
    /\ tev.starts >= 1 /\ tev.at > tev.startedAt
    /\ Len(timer.laps) >= 1
    /\ tev.ret = 0

\* C9: while the timer is running, Elapsed() returns the clock minus the
\* clock at the most recent Start(): 0 at the instant of Start(), never
\* negative, never less than the previous Elapsed() since that Start(),
\* whatever Lap() and GetCurrentLapTime() calls came in between.
C9_ElapsedRunning ==
    (tev.op = "Elapsed" /\ tev.live) =>
        /\ tev.ret = tev.at - tev.startedAt
        /\ tev.ret >= 0
        /\ tev.ret >= tev.preLastElapsed

\* Elapsed() after a second Start(), a lap and an earlier Elapsed() call
C9_Witness ==
    /\ tev.op = "Elapsed" /\ tev.live
    /\ tev.starts = 2 /\ tev.startedAt > ClockStart
    /\ tev.preLastElapsed >= 0 /\ tev.ret > tev.preLastElapsed
    /\ Len(timer.laps) >= 1

\* C10: Lap() returns the clock minus the clock at the most recent Lap() or
\* Start() (when there was one), appends exactly that value to laps and
\* makes the current clock sample the reference point, running or not.
C10_Lap ==
    (tev.op = "Lap" /\ tev.preRefAt # -1) =>
        /\ tev.ret = tev.at - tev.preRefAt
        /\ timer.laps = Append(tev.pre.laps, tev.ret)
        /\ ClockValue(timer.lap) = tev.at

\* a second Lap() taken on a stopped timer, time having passed since the first
C10_Witness ==
    /\ tev.op = "Lap" /\ ~tev.live /\ tev.starts >= 1
    /\ Len(timer.laps) = 2
    /\ tev.ret > 0 /\ tev.ret = tev.at - tev.preRefAt
    /\ tev.preRefAt > tev.startedAt

\* C11: GetCurrentLapTime() returns what Lap() would return at the same
\* instant, the clock minus the lap reference point, and leaves laps, the
\* reference point, start and running as they were.
C11_Peek ==
    tev.op = "GetCurrentLapTime" =>
        /\ tev.ret = tev.at - ClockValue(tev.pre.lap)
        /\ clock = tev.at => tev.ret = LapTimer(tev.pre).lapTime
        /\ timer.laps = tev.pre.laps
        /\ timer.lap = tev.pre.lap
        /\ timer.start = tev.pre.start
        /\ timer.running = tev.pre.running

\* a peek on a running timer after a lap, time having passed since the lap
C11_Witness ==
    /\ tev.op = "GetCurrentLapTime" /\ tev.live
    /\ Len(timer.laps) >= 1
    /\ tev.ret > 0 /\ tev.ret = tev.at - tev.refAt

\* C12: laps is append-only: Lap() adds one entry at the end and keeps the
\* earlier ones, every other operation leaves laps as it was, and Stop()
\* leaves start as it was.
C12_AppendOnly ==
    /\ tev.op = "Lap" =>
          /\ Len(timer.laps) = Len(tev.pre.laps) + 1
          /\ SubSeq(timer.laps, 1, Len(tev.pre.laps)) = tev.pre.laps
    /\ tev.op \in {"Start", "Stop", "Elapsed", "GetCurrentLapTime"} =>
          timer.laps = tev.pre.laps
    /\ tev.op = "Stop" => timer.start = tev.pre.start

\* a restart after a Stop(), with a lap history that the restart kept
C12_Witness ==
    /\ tev.op = "Start" /\ tev.starts = 2 /\ ~tev.preLive
    /\ Len(timer.laps) >= 1
    /\ timer.laps = tev.pre.laps

RECURSIVE SumFrom(_, _)
\* s[i] + s[i+1] + ... + s[Len(s)]
SumFrom(s, i) == IF i > Len(s) THEN 0 ELSE s[i] + SumFrom(s, i + 1)

\* C13: after a Start() and N >= 1 calls of Lap() with no Start() or Stop()
\* in between, the values those N calls returned (the entries appended to
\* laps since the Start()) add up to the clock at the N-th Lap() minus the
\* clock at the Start(), which is what Elapsed() returns at that instant.
C13_LapsSumToElapsed ==
    (tev.op = "Lap" /\ tev.live) =>
        /\ SumFrom(timer.laps, tev.lapsAtStart + 1) = tev.at - tev.startedAt
        /\ clock = tev.at =>
              SumFrom(timer.laps, tev.lapsAtStart + 1) = ElapsedValue(timer)

\* the second Lap() since a Start(), both laps longer than 0, on a timer
\* started when it had been constructed for a while
C13_Witness ==
    /\ tev.op = "Lap" /\ tev.live
    /\ tev.lapsAtStart = 0 /\ Len(timer.laps) = 2
    /\ timer.laps[1] > 0 /\ timer.laps[2] > 0
    /\ tev.startedAt > ClockStart

\* C14 as stated: no Timer operation reads a reference timestamp that no
\* earlier operation has set: Lap() and GetCurrentLapTime() read lap only
\* after a Start() or a Lap() has stored a clock sample in it, and Elapsed()
\* reads start only after a Start().
C14_NoUnsetRead ==
    /\ tev.op \in {"Lap", "GetCurrentLapTime"} => tev.preRefAt # -1
    /\ (tev.op = "Elapsed" /\ tev.pre.running) => tev.startedAt # -1

----------------------------------------------------------------------------
(* Further properties of Spinner and Dotter (checked under Spec) *)

\* C15 as stated: a Spinner or Dotter with frequency <= 0 is rejected at
\* construction, so no object with a zero, negative or infinite period
\* exists or is polled.
C15_NonPositiveRejected ==
    /\ anim.freq > 0
    /\ Polled => (ev.pre.period.den # 0 /\ ev.pre.period.num > 0)

\* the number k of the last fired frame (frames fired before it), 5 limbs
LastFrameNumber == Ripple(fires, -1)

\* base offset of the last fired frame: frameIndex mod length before the fire
LastBase == WordMod(ev.pre.spinIndex, Len(ev.pre.spin_chars))

\* C17 as stated: the Dotter pattern has exactly 25 characters and the base
\* offset of the k-th fired frame is (4 * k) mod 25.
C17_Original ==
    IsDotter(anim.kind) =>
        /\ Len(anim.spin_chars) = 25
        /\ Fired => LastBase = ModFrom(RippleMul(LastFrameNumber, 4, 0), 1, 25)

\* C17 as amended: the Dotter pattern has exactly 24 characters; the base
\* offset of the k-th fired frame is ((4 * k) mod 2^64) mod 24, which is
\* (4 * k) mod 24 as long as 4 * k < 2^64; the four characters written are
\* the pattern's at that offset and the next three.
C17_PatternLength ==
    IsDotter(anim.kind) =>
        /\ Len(anim.spin_chars) = 24
        /\ Fired =>
              LET k4 == RippleMul(LastFrameNumber, 4, 0)
              IN  /\ LastBase = ModFrom(SubSeq(k4, 1, WordLimbs), 1, 24)
                  /\ k4[WordLimbs + 1] = 0 => LastBase = ModFrom(k4, 1, 24)
                  /\ \E d \in {<<>>, <<" ">>} :
                        Written = d \o [i \in 1..4 |-> anim.spin_chars[LastBase + i]]
                                    \o <<" ", "\r">>

\* the frame number 6 of a Dotter, at base offset 24 mod 24 = 0
C17_Witness ==
    /\ IsDotter(anim.kind) /\ Fired
    /\ fires = <<7, 0, 0, 0, 0>>
    /\ ev.pre.spinIndex = <<24, 0, 0, 0>>
    /\ LastBase = 0

\* C18 as stated: when a firing poll returns, the flush has covered the
\* whole frame, carriage return included.
C18_FlushAfterFrame == Fired => flushed = Len(stdout)

\* a poll fires although the clock has not advanced since the last fire
FiredAtOnce == Fired /\ ev.at = ClockValue(ev.pre.last)

\* C20: with frequency >= 1000 for a Spinner, > 1000 for a Dotter, or a
\* negative frequency for either, every poll fires; a Dotter with frequency
\* exactly 1000 fires exactly on the polls at which the clock has advanced
\* since the last fire.
C20_GateOpen ==
    Polled =>
        /\ (anim.kind = "Spinner" /\ anim.freq >= 1000) => Wrote
        /\ (IsDotter(anim.kind) /\ anim.freq > 1000) => Wrote
        /\ anim.freq < 0 => Wrote
        /\ (IsDotter(anim.kind) /\ anim.freq = 1000) =>
              (Wrote <=> ev.at > ClockValue(ev.pre.last))

\* a 1000 Hz Spinner fired twice at the same clock value
C20_Witness ==
    /\ anim.kind = "Spinner" /\ anim.freq = 1000
    /\ FiredAtOnce /\ n >= 2 /\ ev.at = ev.since

----------------------------------------------------------------------------
(* The 10 Hz scenario (checked under ScenarioSpec) *)

\* C16: the 10 Hz Spinner polled every 5 ms for 1 s fires on exactly the
\* polls at 100, 200, ..., 1000 ms: 10 frames, consecutive fires (and the
\* construction and the first fire) 100 ms apart, frameIndex 0, 1, ..., 9
\* at the fires.
C16_Scenario ==
    /\ Polled => (Wrote <=> ev.at % 100 = 0)
    /\ Fired =>
          /\ ev.at = 100 * n
          /\ ev.at - ev.since = 100
          /\ ev.pre.spinIndex = <<n - 1, 0, 0, 0>>
    /\ (Polled /\ ev.at = 1000) => n = 10

\* the 200th poll, at 1000 ms, fires the 10th frame with frameIndex 9
C16_Witness ==
    /\ Fired /\ ev.at = 1000 /\ clock = 1000
    /\ n = 10
    /\ ev.pre.spinIndex = <<9, 0, 0, 0>>
    /\ Len(stdout) = 40

----------------------------------------------------------------------------
(* Liveness of the gate (checked under LiveSpec) *)

\* gap/TicksPerSec >= period, for a finite period and gap in ticks
FullPeriod(period, gap) ==
    period.den # 0 /\ gap >= -((-(TicksPerSec * period.num)) \div period.den)

\* a full period has elapsed since the last fire (or the construction)
PeriodElapsed == FullPeriod(anim.period, clock - ClockValue(anim.last))

\* gap/TicksPerSec <= period, for a finite positive period and gap in ticks
WithinPeriod(period, gap) ==
    gap <= (TicksPerSec * period.num) \div period.den

\* a poll made a full period or more after the last fire has fired, and the
\* gap between a fire and the fire before it (or the construction) is at
\* most the period plus the gap between the firing poll and the poll before
\* it: the poll before it came within a period of the earlier fire
C19_Bounded ==
    (Polled /\ anim.freq > 0) =>
        /\ FullPeriod(ev.pre.period, ev.at - ev.since) => Wrote
        /\ Wrote => WithinPeriod(anim.period, ev.prevAt - ev.since)

\* a full period has elapsed since the last fire and no frame was fired yet
\* (and the behaviour has frames left to fire)
Overdue == anim.freq > 0 /\ n < MaxFires /\ PeriodElapsed

\* C19: with frequency > 0, a poll made when a full period has elapsed since
\* the last fire fires; the gap between two fires exceeds the period by at
\* most the gap between the firing poll and the poll before it; and, polls
\* coming for ever, a frame never stays overdue: the next frame is fired.
C19_Liveness == []C19_Bounded /\ []<>~Overdue

\* a frame fired a period and 2 ms after the one before, by a poll 3 ms
\* after a poll that came too early to fire
C19_Witness ==
    /\ Wrote /\ anim.kind = "Dotter" /\ anim.freq = 250 /\ n = 2
    /\ ev.at - ev.since = 6
    /\ ev.at - ev.prevAt = 3

====
